---- MODULE Spec2Model ----
(***************************************************************************)
(* Model of importer/script.py: a command-line importer.  One run of the   *)
(* model is a sequence of process invocations; the two cache files         *)
(* (~/.importer_token, ~/.importer_takhtit_uuid) persist across them.      *)
(* Every HTTP request is one step whose response is chosen by the          *)
(* environment.  generate_strong_password is modelled on its own           *)
(* specification (SpecPw).                                                 *)
(*                                                                         *)
(* Strings that the program inspects (tokens, identifiers, arguments) are  *)
(* sequences: a token is a sequence of characters, an argument a sequence  *)
(* of chunks whose last chunk is the file extension.                       *)
(***************************************************************************)
EXTENDS Naturals, Integers, Sequences, FiniteSets

VARIABLES
    tokenFile,        \* contents of TOKEN_FILE, None when the file does not exist
    uuidFile,         \* contents of TAKHTIT_UUID_FILE, None when it does not exist
    pc,               \* position of the running invocation
    argv,             \* sys.argv of the running invocation
    exitCode,         \* process exit code, NoCode while running
    net,              \* requests issued by the running invocation, with responses
    token,            \* local: result of load_token()
    account_uuid,     \* local of create_takhtit
    hafs_uuid,        \* local of create_takhtit
    json_files,       \* local of import-translations
    file_idx,         \* position of the for loop over json_files
    success_count,
    failed_count,
    lastLoginToken,   \* history: token most recently written by login
    lastCreatedUuid,  \* history: identifier most recently written by create_takhtit
    uuidAfterLogin,   \* history: that identifier was written after a login wrote a token
    tokenBefore,      \* history: TOKEN_FILE when the running invocation started
    uuidBefore,       \* history: TAKHTIT_UUID_FILE when the running invocation started
    pw_requested,     \* history: the length generate_strong_password was called with
    pw_pc,            \* generate_strong_password: position
    pw_length,        \* generate_strong_password: parameter length
    password_chars,   \* generate_strong_password: the list being built
    pw_fill,          \* characters the list comprehension still draws
    pw_i,             \* shuffle: index still to be swapped
    pw_result         \* generate_strong_password: returned string

mainVars == <<tokenFile, uuidFile, pc, argv, exitCode, net, token, account_uuid,
              hafs_uuid, json_files, file_idx, success_count, failed_count,
              lastLoginToken, lastCreatedUuid, uuidAfterLogin, tokenBefore,
              uuidBefore>>
pwVars == <<pw_pc, pw_length, password_chars, pw_fill, pw_i, pw_result, pw_requested>>
vars == <<mainVars, pwVars>>

----------------------------------------------------------------------------
(* Bounds of the model *)

MaxArgs == 5          \* arguments after the command word
MaxFiles == 3         \* *.json files in a translations directory
MaxMushafs == 2       \* entries of the /mushafs/ listing
MaxReqLen == 9        \* largest requested password length

----------------------------------------------------------------------------
(* Values *)

\* Python's None; a one-chunk sequence no string of the model equals.
None == <<"None">>
NoCode == 0 - 1

\* `if x:` on an optional string: None and "" are falsy.
Truthy(x) == x # None /\ x # <<>>

IsSpace(c) == c = " "

RECURSIVE LStrip(_)
LStrip(s) == IF s # <<>> /\ IsSpace(Head(s)) THEN LStrip(Tail(s)) ELSE s

RECURSIVE RStrip(_)
RStrip(s) ==
    IF s # <<>> /\ IsSpace(s[Len(s)]) THEN RStrip(SubSeq(s, 1, Len(s) - 1)) ELSE s

\* str.strip()
Strip(s) == RStrip(LStrip(s))

\* Tokens a server may return in the "token" field
TokenStrings == { <<>>, <<" ">>, <<"a">>, <<" ", "b">> }
\* Identifiers a server may return in the "uuid" field of a takhtit
UuidStrings == { <<>>, <<"u">>, <<"v", " ">> }
AccountIds == { <<"p">> }
MushafIds == { <<"m", "1">>, <<"m", "2">> }

Statuses == {200, 201, 204, 401}

\* Arguments
Prog == <<"script", ".py">>
Url == <<"http://api">>
Flag == <<"--non-interactive">>
JsonFile == <<"a", ".json">>       \* an existing regular file
TxtFile == <<"b", ".txt">>         \* an existing regular file
MissingJson == <<"c", ".json">>    \* no such file
Dir == <<"translations">>          \* an existing directory
Prompted == <<"typed">>            \* a value read from input()/getpass()

CmdLogin == <<"login">>
CmdImportMushaf == <<"import-mushaf">>
CmdImportTranslations == <<"import-translations">>
CmdImportTranslation == <<"import-translation">>
CmdCreateTakhtit == <<"create-takhtit">>
CmdImportTakhtit == <<"import-takhtit">>
CmdBogus == <<"frobnicate">>

Commands == {CmdLogin, CmdImportMushaf, CmdImportTranslations,
             CmdImportTranslation, CmdCreateTakhtit, CmdImportTakhtit}

\* The argument values each command is tried with
ArgVals(c) ==
    CASE c = CmdLogin -> {Url, Flag}
      [] c = CmdImportMushaf -> {JsonFile, TxtFile, MissingJson}
      [] c = CmdImportTranslation -> {JsonFile, TxtFile, MissingJson}
      [] c = CmdImportTranslations -> {Dir, JsonFile}
      [] c = CmdImportTakhtit -> {TxtFile, MissingJson}
      [] OTHER -> {Url}

ArgSeqs(c) == UNION { [1..n -> ArgVals(c)] : n \in 0..MaxArgs }

Argvs == { <<Prog>> } \cup
         UNION { { <<Prog, c>> \o r : r \in ArgSeqs(c) } : c \in Commands \cup {CmdBogus} }

\* The file system
isfile(p) == p \in {JsonFile, TxtFile}
isdir(p) == p = Dir
\* Mutation: the extension is not looked at
endswith_unchecked(p, suffix) == p # <<>>

endswith(p, suffix) == p # <<>> /\ p[Len(p)] = suffix

FilePool == << <<"t1", ".json">>, <<"t2", ".json">>, <<"t3", ".json">>,
               <<"t4", ".json">>, <<"t5", ".json">> >>
Last0(s) == s[Len(s)]
Reverse(s) == [i \in 1..Len(s) |-> s[Len(s) + 1 - i]]
\* glob.glob(dir/*.json): some files, in some enumeration order
GlobResults == UNION { { SubSeq(FilePool, 1, n), Reverse(SubSeq(FilePool, 1, n)) } :
                       n \in 0..MaxFiles }

----------------------------------------------------------------------------
(* HTTP responses *)

Body(isJson, tok, uuid, lst) == [json |-> isJson, token |-> tok, uuid |-> uuid, list |-> lst]
NotJson == Body(FALSE, None, None, <<>>)
EmptyJson == Body(TRUE, None, None, <<>>)

Http(s, b) == [kind |-> "http", status |-> s, body |-> b]
\* requests raised an exception instead of returning a response
Exc == [kind |-> "exc", status |-> 0, body |-> NotJson]

Mushaf(n, u) == [short_name |-> n, uuid |-> u]
MushafEntries == { Mushaf(n, u) : n \in {"hafs", "warsh"}, u \in {None} \cup MushafIds }
MushafLists == UNION { [1..n -> MushafEntries] : n \in 0..MaxMushafs }

LoginResponses ==
    {Exc} \cup { Http(s, b) : s \in Statuses,
                 b \in {NotJson} \cup { Body(TRUE, t, None, <<>>) : t \in {None} \cup TokenStrings } }
UserResponses ==
    {Exc} \cup { Http(s, b) : s \in Statuses,
                 b \in {NotJson} \cup { Body(TRUE, None, u, <<>>) : u \in {None} \cup AccountIds } }
MushafResponses ==
    {Exc} \cup { Http(s, NotJson) : s \in Statuses }
          \cup { Http(200, Body(TRUE, None, None, l)) : l \in MushafLists }
TakhtitResponses ==
    {Exc} \cup { Http(s, b) : s \in Statuses,
                 b \in {NotJson} \cup { Body(TRUE, None, u, <<>>) : u \in {None} \cup UuidStrings } }
UploadResponses ==
    {Exc} \cup { Http(s, b) : s \in Statuses, b \in {NotJson, EmptyJson} }

\* A request as it goes on the wire, with the response it got
Req(op, auth, id, mushaf, account, file, user, resp) ==
    [op |-> op, auth |-> auth, id |-> id, mushaf_uuid |-> mushaf,
     account_uuid |-> account, file |-> file, user |-> user, resp |-> resp]

----------------------------------------------------------------------------
(* Credential store *)

\* Mutation: the file is read without strip()
load_token_raw == tokenFile

load_token == IF tokenFile # None THEN Strip(tokenFile) ELSE None

\* Mutation: a placeholder identifier stands in for a missing file
load_takhtit_uuid_placeholder == IF uuidFile # None THEN Strip(uuidFile) ELSE <<"0">>

load_takhtit_uuid == IF uuidFile # None THEN Strip(uuidFile) ELSE None

----------------------------------------------------------------------------
(* Initial states *)

InitPwIdle ==
    /\ pw_pc = "off"
    /\ pw_length = 0
    /\ pw_requested = 0
    /\ password_chars = <<>>
    /\ pw_fill = 0
    /\ pw_i = 0
    /\ pw_result = <<>>

InitLocals ==
    /\ pc = "idle"
    /\ argv = <<>>
    /\ exitCode = NoCode
    /\ net = <<>>
    /\ token = None
    /\ account_uuid = None
    /\ hafs_uuid = None
    /\ json_files = <<>>
    /\ file_idx = 1
    /\ success_count = 0
    /\ failed_count = 0
    /\ lastLoginToken = None
    /\ lastCreatedUuid = None
    /\ uuidAfterLogin = FALSE
    /\ tokenBefore = None
    /\ uuidBefore = None

\* Any cache files left by earlier runs
Init ==
    /\ tokenFile \in {None} \cup (TokenStrings \ {<<>>})
    /\ uuidFile \in {None} \cup (UuidStrings \ {<<>>})
    /\ InitLocals
    /\ InitPwIdle

\* Both cache files absent
InitFresh ==
    /\ tokenFile = None
    /\ uuidFile = None
    /\ InitLocals
    /\ InitPwIdle

----------------------------------------------------------------------------
(* main: the dispatcher *)

\* A new process starts on argument vector a; its locals are fresh
Begin(a) ==
    /\ pc = "idle"
    /\ argv' = a
    /\ tokenBefore' = tokenFile
    /\ uuidBefore' = uuidFile
    /\ UNCHANGED <<net, account_uuid, hafs_uuid, file_idx, success_count, failed_count>>
    /\ UNCHANGED <<tokenFile, uuidFile, lastLoginToken, lastCreatedUuid, uuidAfterLogin>>
    /\ UNCHANGED pwVars

\* The process is gone: only the two cache files remain
ProcessEnd ==
    /\ pc = "exited"
    /\ pc' = "idle"
    /\ argv' = <<>>
    /\ exitCode' = NoCode
    /\ net' = <<>>
    /\ token' = None
    /\ account_uuid' = None
    /\ hafs_uuid' = None
    /\ json_files' = <<>>
    /\ file_idx' = 1
    /\ success_count' = 0
    /\ failed_count' = 0
    /\ tokenBefore' = None
    /\ uuidBefore' = None
    /\ UNCHANGED <<tokenFile, uuidFile, lastLoginToken, lastCreatedUuid, uuidAfterLogin>>
    /\ UNCHANGED pwVars

\* sys.exit(code), or falling off the end of main with code 0
Exit(code) == pc' = "exited" /\ exitCode' = code

Goto(label) == pc' = label /\ exitCode' = NoCode

\* list.index(x): first position of x
RECURSIVE index(_, _)
index(s, x) == IF Head(s) = x THEN 1 ELSE 1 + index(Tail(s), x)

Contains(s, x) == \E i \in 1..Len(s) : s[i] = x

\* args[:flag_index] + args[flag_index+1:]
args_wo_flag(a) ==
    LET flag_index == index(a, Flag)
    IN  SubSeq(a, 1, flag_index - 1) \o SubSeq(a, flag_index + 1, Len(a))

MainUsage ==
    /\ pc = "idle"
    /\ \E a \in Argvs :
        /\ Len(a) < 2
        /\ Begin(a)
        /\ Exit(1)
        /\ token' = None
        /\ json_files' = <<>>

MainLogin ==
    /\ pc = "idle"
    /\ \E a \in Argvs :
        /\ Len(a) >= 2 /\ a[2] = CmdLogin
        /\ Begin(a)
        /\ token' = None
        /\ json_files' = <<>>
        /\ IF Contains(a, Flag)
           THEN IF Len(args_wo_flag(a)) # 5 THEN Exit(1) ELSE Goto("login")
           ELSE IF Len(a) = 3 \/ Len(a) = 5 THEN Goto("login") ELSE Exit(1)

\* import-mushaf and import-translation share their validation
MainImportFile(cmd, label) ==
    /\ pc = "idle"
    /\ \E a \in Argvs :
        /\ Len(a) >= 2 /\ a[2] = cmd
        /\ Begin(a)
        /\ json_files' = <<>>
        /\ IF Len(a) # 4 THEN Exit(1) /\ token' = None
           ELSE IF ~isfile(a[3]) THEN Exit(1) /\ token' = None
           ELSE IF ~endswith(a[3], ".json") THEN Exit(1) /\ token' = None
           ELSE Goto(label) /\ token' = load_token

MainImportMushaf == MainImportFile(CmdImportMushaf, "import_mushaf")

MainImportTranslation == MainImportFile(CmdImportTranslation, "import_translation")

MainImportTranslations ==
    /\ pc = "idle"
    /\ \E a \in Argvs, found \in GlobResults :
        /\ Len(a) >= 2 /\ a[2] = CmdImportTranslations
        /\ Begin(a)
        /\ IF Len(a) # 4 THEN Exit(1) /\ token' = None /\ json_files' = <<>>
           ELSE IF ~isdir(a[3]) THEN Exit(1) /\ token' = None /\ json_files' = <<>>
           ELSE /\ token' = load_token
                /\ json_files' = found
                /\ IF found = <<>> THEN Exit(1) ELSE Goto("import_translations")

MainCreateTakhtit ==
    /\ pc = "idle"
    /\ \E a \in Argvs :
        /\ Len(a) >= 2 /\ a[2] = CmdCreateTakhtit
        /\ Begin(a)
        /\ json_files' = <<>>
        /\ IF Len(a) # 3 THEN Exit(1) /\ token' = None
           ELSE /\ token' = load_token
                /\ IF ~Truthy(load_token) THEN Exit(1) ELSE Goto("create_user")

MainImportTakhtit ==
    /\ pc = "idle"
    /\ \E a \in Argvs :
        /\ Len(a) >= 2 /\ a[2] = CmdImportTakhtit
        /\ Begin(a)
        /\ json_files' = <<>>
        /\ IF Len(a) # 5 THEN Exit(1) /\ token' = None
           ELSE /\ token' = load_token
                /\ IF ~Truthy(load_token) THEN Exit(1)
                   ELSE IF ~Truthy(load_takhtit_uuid) THEN Exit(1)
                   ELSE IF ~isfile(a[3]) THEN Exit(1)
                   ELSE Goto("import_takhtit")

MainUnknown ==
    /\ pc = "idle"
    /\ \E a \in Argvs :
        /\ Len(a) >= 2 /\ a[2] \notin Commands
        /\ Begin(a)
        /\ Exit(1)
        /\ token' = None
        /\ json_files' = <<>>

----------------------------------------------------------------------------
(* login *)

\* The positional arguments login is called with: <<username, password>>
LoginCredentials(a) ==
    LET w == IF Contains(a, Flag) THEN args_wo_flag(a) ELSE a
    IN  IF Len(w) = 5 THEN <<w[4], w[5]>> ELSE <<Prompted, Prompted>>

\* Mutation: the status of the response is not looked at
login_outcome_any_status(resp) ==
    IF resp.kind = "exc" THEN [save |-> FALSE, code |-> 1]
    ELSE IF ~resp.body.json THEN [save |-> FALSE, code |-> 1]
    ELSE IF Truthy(resp.body.token) THEN [save |-> TRUE, code |-> 0]
    ELSE [save |-> FALSE, code |-> 0]

\* What login does with a response: whether it writes TOKEN_FILE, and how the
\* process ends (sys.exit(1) in the except clause, a plain return otherwise)
login_outcome(resp) ==
    IF resp.kind = "exc" THEN [save |-> FALSE, code |-> 1]
    ELSE IF resp.status = 200
    THEN IF ~resp.body.json THEN [save |-> FALSE, code |-> 1]
         ELSE IF Truthy(resp.body.token) THEN [save |-> TRUE, code |-> 0]
         ELSE [save |-> FALSE, code |-> 0]
    ELSE [save |-> FALSE, code |-> 0]

LoginRequest ==
    /\ pc = "login"
    /\ \E resp \in LoginResponses :
        /\ net' = Append(net, Req("login", None, None, None, None, None,
                                  LoginCredentials(argv), resp))
        /\ IF login_outcome(resp).save
           THEN /\ tokenFile' = resp.body.token
                /\ lastLoginToken' = resp.body.token
           ELSE UNCHANGED <<tokenFile, lastLoginToken>>
        /\ Exit(login_outcome(resp).code)
    /\ UNCHANGED <<uuidFile, argv, token, account_uuid, hafs_uuid, json_files, file_idx,
                   success_count, failed_count, lastCreatedUuid, uuidAfterLogin>>
    /\ UNCHANGED <<tokenBefore, uuidBefore>>
    /\ UNCHANGED pwVars

----------------------------------------------------------------------------
(* create_user, create_takhtit *)

\* POST /users/.  The payload is fixed apart from the generated password, which
\* no later step reads; generate_strong_password is checked under SpecPw.
CreateUserRequest ==
    /\ pc = "create_user"
    /\ \E resp \in UserResponses :
        /\ net' = Append(net, Req("create_user", load_token, None, None, None, None,
                                  None, resp))
        /\ IF resp.kind = "exc" THEN Exit(1) /\ UNCHANGED account_uuid
           ELSE IF resp.status = 201
           THEN IF ~resp.body.json THEN Exit(1) /\ UNCHANGED account_uuid
                ELSE account_uuid' = resp.body.uuid /\ Goto("list_mushafs")
           ELSE Exit(1) /\ UNCHANGED account_uuid
    /\ UNCHANGED <<tokenFile, uuidFile, argv, token, hafs_uuid, json_files, file_idx,
                   success_count, failed_count, lastLoginToken, lastCreatedUuid,
                   uuidAfterLogin>>
    /\ UNCHANGED <<tokenBefore, uuidBefore>>
    /\ UNCHANGED pwVars

\* Mutation: the loop has no break, so the last entry named "hafs" wins
RECURSIVE find_hafs_last(_)
find_hafs_last(mushafs) ==
    IF mushafs = <<>> THEN None
    ELSE IF Last0(mushafs).short_name = "hafs" THEN Last0(mushafs).uuid
    ELSE find_hafs_last(SubSeq(mushafs, 1, Len(mushafs) - 1))

\* The for loop over mushafs: uuid of the first entry named "hafs", None if there is none
RECURSIVE find_hafs(_)
find_hafs(mushafs) ==
    IF mushafs = <<>> THEN None
    ELSE IF Head(mushafs).short_name = "hafs" THEN Head(mushafs).uuid
    ELSE find_hafs(Tail(mushafs))

ListMushafs ==
    /\ pc = "list_mushafs"
    /\ \E resp \in MushafResponses :
        /\ net' = Append(net, Req("list_mushafs", token, None, None, None, None,
                                  None, resp))
        /\ IF resp.kind = "exc" THEN Exit(1) /\ UNCHANGED hafs_uuid
           ELSE IF resp.status # 200 THEN Exit(1) /\ UNCHANGED hafs_uuid
           ELSE IF ~resp.body.json THEN Exit(1) /\ UNCHANGED hafs_uuid
           ELSE /\ hafs_uuid' = find_hafs(resp.body.list)
                /\ IF ~Truthy(find_hafs(resp.body.list)) THEN Exit(1)
                   ELSE Goto("create_takhtit")
    /\ UNCHANGED <<tokenFile, uuidFile, argv, token, account_uuid, json_files, file_idx,
                   success_count, failed_count, lastLoginToken, lastCreatedUuid,
                   uuidAfterLogin>>
    /\ UNCHANGED <<tokenBefore, uuidBefore>>
    /\ UNCHANGED pwVars

\* Mutation: the identifier is trimmed before it is written
save_takhtit_uuid_trimmed(uuid) ==
    /\ uuidFile' = Strip(uuid)
    /\ lastCreatedUuid' = Strip(uuid)
    /\ uuidAfterLogin' = (lastLoginToken # None)

save_takhtit_uuid(uuid) ==
    /\ uuidFile' = uuid
    /\ lastCreatedUuid' = uuid
    /\ uuidAfterLogin' = (lastLoginToken # None)

\* What create_takhtit does with the response to POST /takhtits/
takhtit_outcome(resp) ==
    IF resp.kind = "exc" THEN [save |-> FALSE, code |-> 1]
    ELSE IF resp.status = 201
    THEN IF ~resp.body.json THEN [save |-> FALSE, code |-> 1]
         ELSE IF Truthy(resp.body.uuid) THEN [save |-> TRUE, code |-> 0]
         ELSE [save |-> FALSE, code |-> 0]
    ELSE [save |-> FALSE, code |-> 1]

PostTakhtit ==
    /\ pc = "create_takhtit"
    /\ \E resp \in TakhtitResponses :
        /\ net' = Append(net, Req("create_takhtit", token, None, hafs_uuid, account_uuid,
                                  None, None, resp))
        /\ IF takhtit_outcome(resp).save
           THEN save_takhtit_uuid(resp.body.uuid)
           ELSE UNCHANGED <<uuidFile, lastCreatedUuid, uuidAfterLogin>>
        /\ Exit(takhtit_outcome(resp).code)
    /\ UNCHANGED <<tokenFile, argv, token, account_uuid, hafs_uuid, json_files, file_idx,
                   success_count, failed_count, lastLoginToken>>
    /\ UNCHANGED <<tokenBefore, uuidBefore>>
    /\ UNCHANGED pwVars

----------------------------------------------------------------------------
(* uploads *)

\* Mutation: every 2xx status counts as success
Accepted_any_2xx(resp) == resp.kind = "http" /\ resp.status \in 200..299

Accepted(resp) == resp.kind = "http" /\ resp.status \in {200, 201}

\* headers["Authorization"] is set only `if token:`
OptionalAuth(t) == IF Truthy(t) THEN t ELSE None

ImportTakhtitUpload ==
    /\ pc = "import_takhtit"
    /\ \E resp \in UploadResponses :
        /\ net' = Append(net, Req("import_takhtit", token, load_takhtit_uuid, None, None,
                                  argv[3], None, resp))
        /\ IF Accepted(resp) THEN Exit(0) ELSE Exit(1)
    /\ UNCHANGED <<tokenFile, uuidFile, argv, token, account_uuid, hafs_uuid, json_files,
                   file_idx, success_count, failed_count, lastLoginToken, lastCreatedUuid,
                   uuidAfterLogin>>
    /\ UNCHANGED <<tokenBefore, uuidBefore>>
    /\ UNCHANGED pwVars

SingleUpload(label, op) ==
    /\ pc = label
    /\ \E resp \in UploadResponses :
        /\ net' = Append(net, Req(op, OptionalAuth(token), None, None, None,
                                  argv[3], None, resp))
        /\ IF Accepted(resp) THEN Exit(0) ELSE Exit(1)
    /\ UNCHANGED <<tokenFile, uuidFile, argv, token, account_uuid, hafs_uuid, json_files,
                   file_idx, success_count, failed_count, lastLoginToken, lastCreatedUuid,
                   uuidAfterLogin>>
    /\ UNCHANGED <<tokenBefore, uuidBefore>>
    /\ UNCHANGED pwVars

ImportMushafUpload == SingleUpload("import_mushaf", "import_mushaf")

ImportTranslationUpload == SingleUpload("import_translation", "import_translation")

\* One iteration of the for loop of import-translations; the last one is followed
\* by the summary and the exit
TranslationsUpload ==
    /\ pc = "import_translations"
    /\ file_idx <= Len(json_files)
    /\ \E resp \in UploadResponses :
        /\ net' = Append(net, Req("import_translation", OptionalAuth(token), None, None,
                                  None, json_files[file_idx], None, resp))
        /\ success_count' = IF Accepted(resp) THEN success_count + 1 ELSE success_count
        /\ failed_count' = IF Accepted(resp) THEN failed_count ELSE failed_count + 1
        /\ file_idx' = file_idx + 1
        /\ IF file_idx' <= Len(json_files) THEN Goto("import_translations")
           ELSE IF failed_count' > 0 THEN Exit(1) ELSE Exit(0)
    /\ UNCHANGED <<tokenFile, uuidFile, argv, token, account_uuid, hafs_uuid, json_files,
                   lastLoginToken, lastCreatedUuid, uuidAfterLogin>>
    /\ UNCHANGED <<tokenBefore, uuidBefore>>
    /\ UNCHANGED pwVars

----------------------------------------------------------------------------
(* The program as a sequence of invocations *)

Next ==
    \/ MainUsage
    \/ MainLogin
    \/ MainImportMushaf
    \/ MainImportTranslation
    \/ MainImportTranslations
    \/ MainCreateTakhtit
    \/ MainImportTakhtit
    \/ MainUnknown
    \/ LoginRequest
    \/ CreateUserRequest
    \/ ListMushafs
    \/ PostTakhtit
    \/ ImportTakhtitUpload
    \/ ImportMushafUpload
    \/ ImportTranslationUpload
    \/ TranslationsUpload
    \/ ProcessEnd

Spec == Init /\ [][Next]_vars

SpecFresh == InitFresh /\ [][Next]_vars

----------------------------------------------------------------------------
(* generate_strong_password *)

MinLength == 8

\* Representatives of string.ascii_lowercase, ascii_uppercase, digits and "-_@#$%"
Lowercase == {"a"}
Uppercase == {"A"}
Digits == {"0"}
Symbols == {"-"}
alphabet == Lowercase \cup Uppercase \cup Digits \cup Symbols

\* Mutation: the clamp is missing
Clamp_missing(length) == length

\* if length < 8: length = 8
Clamp(length) == IF length < MinLength THEN MinLength ELSE length

\* range(length - len(password_chars)): the characters still to be drawn
FillCount(length, have) == IF length - have > 0 THEN length - have ELSE 0

Swap(s, i, j) == [s EXCEPT ![i] = s[j], ![j] = s[i]]

\* Requested lengths: far below, just below, at and above the minimum
ReqLengths == {0} \cup ((MinLength - 1)..MaxReqLen)

InitPw ==
    /\ tokenFile = None
    /\ uuidFile = None
    /\ InitLocals
    /\ pw_pc = "call"
    /\ pw_length \in ReqLengths
    /\ pw_requested = pw_length
    /\ password_chars = <<>>
    /\ pw_fill = 0
    /\ pw_i = 0
    /\ pw_result = <<>>

\* The clamp and the four required characters
PwRequired ==
    /\ pw_pc = "call"
    /\ pw_length' = Clamp(pw_length)
    /\ \E l \in Lowercase, u \in Uppercase, d \in Digits, y \in Symbols :
        /\ password_chars' = <<l, u, d, y>>
        /\ pw_fill' = FillCount(Clamp(pw_length), Len(<<l, u, d, y>>))
    /\ pw_pc' = "fill"
    /\ UNCHANGED <<pw_i, pw_result>>
    /\ UNCHANGED pw_requested
    /\ UNCHANGED mainVars

\* One secrets.choice(alphabet) of the list comprehension
PwFill ==
    /\ pw_pc = "fill"
    /\ pw_fill > 0
    /\ \E c \in alphabet : password_chars' = Append(password_chars, c)
    /\ pw_fill' = pw_fill - 1
    /\ UNCHANGED <<pw_pc, pw_length, pw_i, pw_result>>
    /\ UNCHANGED pw_requested
    /\ UNCHANGED mainVars

\* The comprehension is exhausted; shuffle starts at the last index
PwFillDone ==
    /\ pw_pc = "fill"
    /\ pw_fill = 0
    /\ pw_pc' = "shuffle"
    /\ pw_i' = Len(password_chars)
    /\ UNCHANGED <<pw_length, password_chars, pw_fill, pw_result>>
    /\ UNCHANGED pw_requested
    /\ UNCHANGED mainVars

\* One step of random.shuffle: for i in reversed(range(1, n)): swap x[i], x[randbelow(i+1)]
PwShuffle ==
    /\ pw_pc = "shuffle"
    /\ pw_i >= 2
    /\ \E j \in 1..pw_i : password_chars' = Swap(password_chars, pw_i, j)
    /\ pw_i' = pw_i - 1
    /\ UNCHANGED <<pw_pc, pw_length, pw_fill, pw_result>>
    /\ UNCHANGED pw_requested
    /\ UNCHANGED mainVars

\* return "".join(password_chars)
PwReturn ==
    /\ pw_pc = "shuffle"
    /\ pw_i < 2
    /\ pw_result' = password_chars
    /\ pw_pc' = "done"
    /\ UNCHANGED <<pw_length, password_chars, pw_fill, pw_i>>
    /\ UNCHANGED pw_requested
    /\ UNCHANGED mainVars

NextPw == PwRequired \/ PwFill \/ PwFillDone \/ PwShuffle \/ PwReturn

SpecPw == InitPw /\ [][NextPw]_vars

----------------------------------------------------------------------------
(* Vocabulary of the properties, stated from the command table and the     *)
(* error taxonomy rather than from the dispatcher                          *)

Last(s) == s[Len(s)]

Running == pc # "idle"
Exited == pc = "exited"

\* Number of arguments after the command word
NArgs(a) == Len(a) - 2

HasFlag(a) == \E i \in 1..Len(a) : a[i] = Flag

\* Arguments each command takes
ArityOk(a) ==
    CASE a[2] = CmdLogin ->
            IF HasFlag(a) THEN NArgs(a) = 4 ELSE NArgs(a) \in {1, 3}
      [] a[2] = CmdImportMushaf -> NArgs(a) = 2
      [] a[2] = CmdImportTranslations -> NArgs(a) = 2
      [] a[2] = CmdImportTranslation -> NArgs(a) = 2
      [] a[2] = CmdCreateTakhtit -> NArgs(a) = 1
      [] a[2] = CmdImportTakhtit -> NArgs(a) = 3
      [] OTHER -> FALSE

NamedJson(p) == Len(p) > 0 /\ p[Len(p)] = ".json"

\* The arguments fail dispatcher validation
ArgsInvalid(a) ==
    \/ Len(a) < 2
    \/ a[2] \notin Commands
    \/ ~ArityOk(a)
    \/ /\ a[2] \in {CmdImportMushaf, CmdImportTranslation}
       /\ ~(isfile(a[3]) /\ NamedJson(a[3]))

\* HTTP statuses each operation accepts
AcceptedSet(op) ==
    CASE op = "login" -> {200}
      [] op = "create_user" -> {201}
      [] op = "list_mushafs" -> {200}
      [] op = "create_takhtit" -> {201}
      [] OTHER -> {200, 201}

Rejected(e) == e.resp.kind = "http" /\ e.resp.status \notin AcceptedSet(e.op)
TransportError(e) == e.resp.kind = "exc"

SomeRejected == \E i \in 1..Len(net) : Rejected(net[i])
SomeTransportError == \E i \in 1..Len(net) : TransportError(net[i])

----------------------------------------------------------------------------
\* C1: when an invocation has ended, its exit code is 1 whenever its arguments
\* failed validation (unknown command included), some response had a status
\* outside the accepted set of its operation, or some request raised a transport
\* exception; exit code 0 is produced only when none of these happened.
C1_ExitCodeContract ==
    Exited =>
        /\ (ArgsInvalid(argv) \/ SomeRejected \/ SomeTransportError) => exitCode = 1
        /\ exitCode = 0 => ~ArgsInvalid(argv) /\ ~SomeRejected /\ ~SomeTransportError

\* The login response is one the program reports as a failed login
LoginFailed(r) ==
    \/ r.kind = "exc"
    \/ r.kind = "http" /\ r.status # 200
    \/ r.kind = "http" /\ r.status = 200 /\ r.body.json /\ r.body.token = None

\* C2: a login invocation that received a status other than 200, a 200 whose JSON
\* body has no token field, or a transport error, ends with a non-zero exit code.
C2_LoginFailureExitsNonZero ==
    (Exited /\ net # <<>> /\ Last(net).op = "login" /\ LoginFailed(Last(net).resp))
        => exitCode # 0

----------------------------------------------------------------------------
\* The step in which login handles its response
LoginStep == pc = "login" /\ pc' = "exited"

\* C3: the persisted token changes only in a login step whose response is a 200
\* with a token field, and the new contents are exactly that token (a non-empty
\* token is always written, over whatever was there); a login answered by another
\* status, by a 200 without a token field or by a transport error, and every step
\* of every other command, leave the file as it was.
C3_TokenFrame ==
    [][ /\ tokenFile' # tokenFile =>
              /\ LoginStep
              /\ Last(net').resp.kind = "http"
              /\ Last(net').resp.status = 200
              /\ Last(net').resp.body.json
              /\ Last(net').resp.body.token # None
              /\ tokenFile' = Last(net').resp.body.token
        /\ LoginStep =>
              /\ ( /\ Last(net').resp.kind = "http"
                   /\ Last(net').resp.status = 200
                   /\ Last(net').resp.body.json
                   /\ Last(net').resp.body.token \notin {None, <<>>} )
                   => tokenFile' = Last(net').resp.body.token
              /\ LoginFailed(Last(net').resp) => tokenFile' = tokenFile
        /\ ~LoginStep => tokenFile' = tokenFile
      ]_vars

\* A successful login has replaced an earlier, different token
C3_Witness ==
    /\ Exited
    /\ net # <<>>
    /\ Last(net).op = "login"
    /\ Last(net).resp.kind = "http"
    /\ Last(net).resp.status = 200
    /\ Last(net).resp.body.token = <<" ", "b">>
    /\ tokenBefore = <<"a">>
    /\ tokenFile = <<" ", "b">>
    /\ exitCode = 0

----------------------------------------------------------------------------
\* C4: an invocation whose arguments fail dispatcher validation (wrong number of
\* arguments, login with or without the flag included; unknown command; for
\* import-mushaf and import-translation a path that is no existing file or does
\* not end in .json) never reaches a request: it ends with exit code 1 and has
\* made no network call.
C4_InvalidArgsNoNetwork ==
    (Running /\ ArgsInvalid(argv)) =>
        /\ Exited
        /\ exitCode = 1
        /\ net = <<>>

\* import-mushaf on an existing file that is not .json was turned away
C4_Witness ==
    /\ Exited
    /\ Len(argv) = 4
    /\ argv[2] = CmdImportMushaf
    /\ argv[3] = TxtFile
    /\ exitCode = 1
    /\ net = <<>>

----------------------------------------------------------------------------
\* The running invocation is import-translations on an existing directory
InTranslations ==
    /\ Running
    /\ Len(argv) = 4
    /\ argv[2] = CmdImportTranslations
    /\ isdir(argv[3])

AnsweredOk(e) == e.resp.kind = "http" /\ e.resp.status \in {200, 201}
OkCount == Cardinality({ i \in 1..Len(net) : AnsweredOk(net[i]) })

\* C5: import-translations on a directory with n >= 1 JSON files uploads the
\* files one by one in enumeration order, each exactly once, whatever the earlier
\* outcomes; when it ends all n were attempted, successes + failures = n, the
\* successes are the uploads answered 200 or 201, and the exit code is 1 if a file
\* failed and 0 otherwise; with n = 0 it ends with 1 and no upload.
C5_BatchImport ==
    InTranslations =>
        /\ Len(net) <= Len(json_files)
        /\ \A i \in 1..Len(net) :
              net[i].op = "import_translation" /\ net[i].file = json_files[i]
        /\ ~Exited => Len(net) < Len(json_files)
        /\ Exited =>
              /\ Len(net) = Len(json_files)
              /\ success_count + failed_count = Len(json_files)
              /\ success_count = OkCount
              /\ exitCode = IF failed_count > 0 \/ json_files = <<>> THEN 1 ELSE 0

\* Three files, the second upload failed, the third was still attempted
C5_Witness ==
    /\ InTranslations
    /\ Exited
    /\ Len(json_files) = 3
    /\ Len(net) = 3
    /\ ~AnsweredOk(net[2])
    /\ AnsweredOk(net[3])
    /\ success_count = 2
    /\ failed_count = 1
    /\ exitCode = 1

----------------------------------------------------------------------------
InCreateTakhtit ==
    /\ Running
    /\ Len(argv) = 3
    /\ argv[2] = CmdCreateTakhtit

CreateTakhtitOrder == <<"create_user", "list_mushafs", "create_takhtit">>

HafsPositions(l) == { i \in 1..Len(l) : l[i].short_name = "hafs" }
Min(S) == CHOOSE x \in S : \A y \in S : x <= y

\* C6: create-takhtit issues POST /users/, GET /mushafs/, POST /takhtits/ in that
\* order, every one with the cached token and only after the previous one
\* succeeded (201, then 200); POST /takhtits/ is sent only if the list has an
\* entry named "hafs" and carries the uuid of the first such entry and the account
\* identifier user creation returned; with no such entry the invocation ends with
\* exit code 1 after the listing.
C6_CreateTakhtitSequence ==
    InCreateTakhtit =>
        /\ Len(net) <= 3
        /\ \A i \in 1..Len(net) :
              /\ net[i].op = CreateTakhtitOrder[i]
              /\ tokenBefore # None
              /\ net[i].auth = Strip(tokenBefore)
              /\ net[i].auth # <<>>
        /\ Len(net) >= 2 =>
              net[1].resp.kind = "http" /\ net[1].resp.status = 201
        /\ Len(net) >= 3 =>
              /\ net[2].resp.kind = "http" /\ net[2].resp.status = 200
              /\ HafsPositions(net[2].resp.body.list) # {}
              /\ net[3].mushaf_uuid =
                    net[2].resp.body.list[Min(HafsPositions(net[2].resp.body.list))].uuid
              /\ net[3].account_uuid = net[1].resp.body.uuid
        /\ ( /\ Len(net) = 2
             /\ net[2].resp.kind = "http" /\ net[2].resp.status = 200
             /\ net[2].resp.body.json
             /\ HafsPositions(net[2].resp.body.list) = {} )
             => Exited /\ exitCode = 1

\* Two entries named "hafs": the takhtit was created for the first
C6_Witness ==
    /\ InCreateTakhtit
    /\ Len(net) = 3
    /\ Len(net[2].resp.body.list) = 2
    /\ net[2].resp.body.list[1] = Mushaf("hafs", <<"m", "2">>)
    /\ net[2].resp.body.list[2] = Mushaf("hafs", <<"m", "1">>)
    /\ net[3].mushaf_uuid = <<"m", "2">>
    /\ net[3].account_uuid = <<"p">>

\* The listing had no entry named "hafs": no takhtit was requested
C6_WitnessNoHafs ==
    /\ InCreateTakhtit
    /\ Exited
    /\ Len(net) = 2
    /\ net[2].resp.status = 200
    /\ net[2].resp.body.json
    /\ Len(net[2].resp.body.list) = 2
    /\ HafsPositions(net[2].resp.body.list) = {}
    /\ exitCode = 1

----------------------------------------------------------------------------
InImportTakhtit ==
    /\ Running
    /\ Len(argv) = 5
    /\ argv[2] = CmdImportTakhtit

\* C7: import-takhtit makes a network call only when a token is cached, a takhtit
\* identifier is cached and the file exists; with the identifier absent (token
\* cached or not), the token absent, or the file missing, it ends with exit code 1
\* before any network call.
C7_ImportTakhtitPreconditions ==
    InImportTakhtit =>
        /\ (net # <<>> \/ pc = "import_takhtit") =>
              tokenFile # None /\ uuidFile # None /\ isfile(argv[3])
        /\ (tokenFile = None \/ uuidFile = None \/ ~isfile(argv[3])) =>
              Exited /\ exitCode = 1 /\ net = <<>>

\* Token cached, identifier absent: turned away without a request
C7_Witness ==
    /\ InImportTakhtit
    /\ Exited
    /\ tokenFile = <<"a">>
    /\ uuidFile = None
    /\ isfile(argv[3])
    /\ exitCode = 1
    /\ net = <<>>

----------------------------------------------------------------------------
\* The step in which create_takhtit handles the response to POST /takhtits/
TakhtitStep == pc = "create_takhtit" /\ pc' = "exited"

\* C8: the persisted takhtit identifier changes only in the create-takhtit step
\* whose POST /takhtits/ was answered 201 with a uuid field, and becomes exactly
\* that uuid (a non-empty uuid is always written, over whatever was there); a 201
\* without a uuid field writes nothing and ends with exit code 0; another status
\* or a transport error writes nothing and ends with exit code 1; no other step
\* changes the file.
C8_TakhtitIdFrame ==
    [][ /\ uuidFile' # uuidFile =>
              /\ TakhtitStep
              /\ Last(net').resp.kind = "http"
              /\ Last(net').resp.status = 201
              /\ Last(net').resp.body.json
              /\ Last(net').resp.body.uuid # None
              /\ uuidFile' = Last(net').resp.body.uuid
        /\ TakhtitStep =>
              /\ ( /\ Last(net').resp.kind = "http"
                   /\ Last(net').resp.status = 201
                   /\ Last(net').resp.body.json
                   /\ Last(net').resp.body.uuid \notin {None, <<>>} )
                   => uuidFile' = Last(net').resp.body.uuid /\ exitCode' = 0
              /\ ( /\ Last(net').resp.kind = "http"
                   /\ Last(net').resp.status = 201
                   /\ Last(net').resp.body.json
                   /\ Last(net').resp.body.uuid = None )
                   => uuidFile' = uuidFile /\ exitCode' = 0
              /\ ( \/ Last(net').resp.kind = "exc"
                   \/ Last(net').resp.status # 201 )
                   => uuidFile' = uuidFile /\ exitCode' = 1
        /\ ~TakhtitStep => uuidFile' = uuidFile
      ]_vars

\* A created takhtit has replaced an earlier, different identifier
C8_Witness ==
    /\ InCreateTakhtit
    /\ Exited
    /\ Len(net) = 3
    /\ net[3].resp.status = 201
    /\ net[3].resp.body.uuid = <<"v", " ">>
    /\ uuidBefore = <<"u">>
    /\ uuidFile = <<"v", " ">>
    /\ exitCode = 0

----------------------------------------------------------------------------
HasClass(s, class) == \E i \in 1..Len(s) : s[i] \in class

\* C9: generate_strong_password returns, for a requested length >= 8, a string of
\* exactly that length, and for a requested length < 8 a string of length 8; in
\* both cases it holds a lowercase letter, an uppercase letter, a digit and a
\* symbol, whatever the random choices and the shuffle were.
C9_PasswordPolicy ==
    pw_pc = "done" =>
        /\ Len(pw_result) = IF pw_requested >= 8 THEN pw_requested ELSE 8
        /\ HasClass(pw_result, Lowercase)
        /\ HasClass(pw_result, Uppercase)
        /\ HasClass(pw_result, Digits)
        /\ HasClass(pw_result, Symbols)

\* A nine-character password whose required characters were moved by the shuffle
C9_Witness ==
    /\ pw_pc = "done"
    /\ pw_requested = 9
    /\ Len(pw_result) = 9
    /\ pw_result[1] \in Symbols
    /\ pw_result[9] \in Lowercase
    /\ pw_result[2] \in Digits

----------------------------------------------------------------------------
TakhtitUploads == { i \in 1..Len(net) : net[i].op = "import_takhtit" }
CreateTakhtitRequests ==
    { i \in 1..Len(net) : net[i].op \in {"create_user", "list_mushafs", "create_takhtit"} }

\* Nothing is uploaded to a takhtit, and create-takhtit sends nothing, before a
\* login has written a token; an upload also needs an identifier written later
UploadsFollowLoginAndCreate ==
    /\ \A i \in TakhtitUploads :
          lastLoginToken # None /\ lastCreatedUuid # None /\ uuidAfterLogin
    /\ \A i \in CreateTakhtitRequests : lastLoginToken # None

\* C10 as stated: starting with both cache files absent, every upload to
\* /takhtits/{id}/import/ has as {id} the identifier most recently persisted by
\* create-takhtit and as bearer token the token most recently persisted by login;
\* no such upload precedes a login that persisted a token and a later
\* create-takhtit that persisted an identifier, and create-takhtit sends no
\* request before a login persisted a token.
C10_UploadsUsePersisted ==
    /\ \A i \in TakhtitUploads :
          net[i].id = lastCreatedUuid /\ net[i].auth = lastLoginToken
    /\ UploadsFollowLoginAndCreate

\* C10 amended: the upload has as {id} and as bearer token the persisted
\* identifier and token with leading and trailing whitespace removed; the order
\* of login, create-takhtit and upload is as stated.
C10_UploadsUseTrimmedPersisted ==
    /\ \A i \in TakhtitUploads :
          net[i].id = Strip(lastCreatedUuid) /\ net[i].auth = Strip(lastLoginToken)
    /\ UploadsFollowLoginAndCreate

\* An upload whose token and identifier differ from the persisted text by the
\* whitespace load_token and load_takhtit_uuid strip
C10_Witness ==
    /\ InImportTakhtit
    /\ Len(net) = 1
    /\ net[1].op = "import_takhtit"
    /\ lastLoginToken = <<" ", "b">>
    /\ net[1].auth = <<"b">>
    /\ lastCreatedUuid = <<"v", " ">>
    /\ net[1].id = <<"v">>

====
